---- MODULE Spec2Model ----
(***************************************************************************)
(* sh7372 power management (arch/arm/mach-shmobile/pm-sh7372.c):           *)
(*   - the power-domain transitions pd_power_down / pd_power_up driven     *)
(*     through the SYSC registers PSTR, SPDCR and SWUCR,                   *)
(*   - the device stop/start adapter sh7372_stop_dev / sh7372_start_dev,   *)
(*   - the core standby procedure sh7372_enter_core_standby.               *)
(* Every register access of the code is one step; the hardware answers     *)
(* between the steps.                                                      *)
(***************************************************************************)
EXTENDS Integers, Sequences, FiniteSets, TLC

VARIABLES
    \* SYSC registers
    PSTR, SPDCR, SWUCR,
    \* the power-domain callback in progress
    pc, genpd, retry_count, ret,
    \* what the callback in progress has done so far
    entry_on, writes, polls, polls_set, final_read, delays,
    \* what the hardware has done to genpd's bits since the callback was entered
    hw_dropped, hw_downed,
    \* core standby: registers, retained scratch memory, CPU, position
    sb_pc, APARMBAREA, SBAR, SYSTBCR, smfram, cpu, pte, lost, marker_read, trace,
    \* device stop/start adapter
    ops, dv_pc, dv_dev, dv_ret, dv_steps, clk_on, dev_running,
    \* the A3RV wrappers: position, the local ret, the calls made so far
    wr, wr_ret, wr_log,
    \* the framework: the domains queued for power-off consideration, and the
    \* domains whose latest power-up returned -EIO
    power_off_work, failed

pdvars == <<PSTR, SPDCR, SWUCR, pc, genpd, retry_count, ret,
            entry_on, writes, polls, polls_set, final_read, delays,
            hw_dropped, hw_downed>>
sbvars == <<sb_pc, APARMBAREA, SBAR, SYSTBCR, smfram, cpu, pte, lost, marker_read, trace>>
dvvars == <<ops, dv_pc, dv_dev, dv_ret, dv_steps, clk_on, dev_running>>
fwvars == <<wr, wr_ret, wr_log, power_off_work, failed>>
vars == <<pdvars, sbvars, dvvars, fwvars>>

----------------------------------------------------------------------------
\* Constants of the code

PSTR_RETRIES == 100
PSTR_DELAY_US == 10
EIO == 5
\* the registers and unsigned int are 32 bits wide
RegWidth == 32

\* The domain descriptors, lines 191-243
Domains == {"A4LC", "A4MP", "D4", "A4R", "A3RV", "A3RI", "A3SP", "A3SG"}

\* a descriptor table in which A3RV was given A4R's bit
bit_shiftClash(d) ==
    CASE d = "A4LC" -> 1
      [] d = "A4MP" -> 2
      [] d = "D4"   -> 3
      [] d = "A4R"  -> 5
      [] d = "A3RV" -> 5
      [] d = "A3RI" -> 8
      [] d = "A3SP" -> 11
      [] d = "A3SG" -> 13

bit_shift(d) ==
    CASE d = "A4LC" -> 1
      [] d = "A4MP" -> 2
      [] d = "D4"   -> 3
      [] d = "A4R"  -> 5
      [] d = "A3RV" -> 6
      [] d = "A3RI" -> 8
      [] d = "A3SP" -> 11
      [] d = "A3SG" -> 13

\* .stay_on is initialised for A4R only; sh7372_a3sp_init, which would set it
\* for A3SP, has no caller.
stay_on(d) == d = "A4R"

\* unsigned int mask = 1 << sh7372_pd->bit_shift; every bit_shift is below
\* RegWidth - 1, so the shift neither wraps nor reaches the sign bit
mask(d) == 2 ^ bit_shift(d)

\* reg & mask, for a single-bit mask
TestBit(reg, m) == (reg \div m) % 2 = 1

\* The callbacks sh7372_init_pm_domain installs, the same for every domain
power_on(d) == "pd_power_up"
power_off(d) == "pd_power_down"

----------------------------------------------------------------------------
\* The domains the framework drives in a behaviour: the domain that is to
\* stay on, the child domain and its parent.  The other five stay on; the
\* code's only per-domain input is the mask.
Active == {"A4R", "A3RV", "A4LC"}

\* PSTR with every domain on
AllOn == mask("A4LC") + mask("A4MP") + mask("D4") + mask("A4R")
         + mask("A3RV") + mask("A3RI") + mask("A3SP") + mask("A3SG")

----------------------------------------------------------------------------
\* The SYSC hardware.  A write of a mask to a request register sets the
\* written bits; the hardware clears a request bit when it has dealt with
\* the request.

InPowerUp == pc \in {"pu_l72", "pu_l75", "pu_l78", "pu_l85", "pu_ret"}

RegWrite(reg, m) == IF TestBit(reg, m) THEN reg ELSE reg + m
RegClear(reg, m) == IF TestBit(reg, m) THEN reg - m ELSE reg

\* the hardware powers the domain up and clears the request
HwPowerUpDone(d) ==
    /\ TestBit(SWUCR, mask(d))
    /\ SWUCR' = RegClear(SWUCR, mask(d))
    /\ PSTR' = RegWrite(PSTR, mask(d))
    /\ UNCHANGED <<SPDCR, pc, genpd, retry_count, ret, entry_on, writes, polls,
                   polls_set, final_read, delays, hw_dropped, hw_downed>>
    /\ UNCHANGED <<sbvars, dvvars, fwvars>>

\* the hardware clears the request without powering the domain up
HwPowerUpDropped(d) ==
    /\ TestBit(SWUCR, mask(d))
    /\ SWUCR' = RegClear(SWUCR, mask(d))
    /\ hw_dropped' = (hw_dropped \/ (InPowerUp /\ genpd = d))
    /\ UNCHANGED <<PSTR, SPDCR, pc, genpd, retry_count, ret, entry_on, writes, polls,
                   polls_set, final_read, delays, hw_downed>>
    /\ UNCHANGED <<sbvars, dvvars, fwvars>>

\* the hardware powers the domain down and clears the request
HwPowerDownDone(d) ==
    /\ TestBit(SPDCR, mask(d))
    /\ SPDCR' = RegClear(SPDCR, mask(d))
    /\ PSTR' = RegClear(PSTR, mask(d))
    /\ hw_downed' = (hw_downed \/ (InPowerUp /\ genpd = d))
    /\ UNCHANGED <<SWUCR, pc, genpd, retry_count, ret, entry_on, writes, polls,
                   polls_set, final_read, delays, hw_dropped>>
    /\ UNCHANGED <<sbvars, dvvars, fwvars>>

\* the hardware clears the request without powering the domain down
HwPowerDownDropped(d) ==
    /\ TestBit(SPDCR, mask(d))
    /\ SPDCR' = RegClear(SPDCR, mask(d))
    /\ UNCHANGED <<PSTR, SWUCR, pc, genpd, retry_count, ret, entry_on, writes, polls,
                   polls_set, final_read, delays, hw_dropped, hw_downed>>
    /\ UNCHANGED <<sbvars, dvvars, fwvars>>

----------------------------------------------------------------------------
\* pd_power_down, lines 41-63

\* the framework invokes genpd->power_off
CallPowerOff(d) ==
    /\ pc = "idle"
    /\ power_off(d) = "pd_power_down"
    /\ pc' = "pd_l46"
    /\ genpd' = d
    /\ ret' = 0
    /\ retry_count' = 0
    /\ UNCHANGED <<PSTR, SPDCR, SWUCR, entry_on, writes, polls, polls_set,
                   final_read, delays, hw_dropped, hw_downed>>
    /\ UNCHANGED <<sbvars, dvvars, fwvars>>

\* a power-down that issues the request whatever the status
PdIssuesAlways(pstr, m) == TRUE

\* line 46: whether the request is issued
PdIssues(pstr, m) == TestBit(pstr, m)

\* a power-down that reports an exhausted budget as an error
PdResultTimeout(rc) == IF rc = 0 THEN -EIO ELSE 0

\* line 62: return 0, whatever retry_count the loop ended with
PdResult(rc) == 0

\* line 46: if (__raw_readl(PSTR) & mask)
PdReadStatus ==
    /\ pc = "pd_l46"
    /\ entry_on' = TestBit(PSTR, mask(genpd))
    /\ IF PdIssues(PSTR, mask(genpd))
          THEN /\ pc' = "pd_l49"
               /\ ret' = ret
          ELSE /\ pc' = "pd_ret"
               /\ ret' = PdResult(retry_count)
    /\ UNCHANGED <<PSTR, SPDCR, SWUCR, genpd, retry_count, writes, polls, polls_set,
                   final_read, delays, hw_dropped, hw_downed>>
    /\ UNCHANGED <<sbvars, dvvars, fwvars>>

\* a request written as the register's contents with the domain's bit added
PdWriteRequestReadModifyWrite ==
    /\ pc = "pd_l49"
    /\ SPDCR' = RegWrite(SPDCR, mask(genpd))
    /\ writes' = Append(writes, <<"SPDCR", RegWrite(SPDCR, mask(genpd))>>)
    /\ retry_count' = PSTR_RETRIES
    /\ pc' = "pd_l52"
    /\ UNCHANGED <<PSTR, SWUCR, genpd, ret, entry_on, polls, polls_set,
                   final_read, delays, hw_dropped, hw_downed>>
    /\ UNCHANGED <<sbvars, dvvars, fwvars>>

\* line 49: __raw_writel(mask, SPDCR); line 51: retry_count = PSTR_RETRIES
PdWriteRequest ==
    /\ pc = "pd_l49"
    /\ SPDCR' = RegWrite(SPDCR, mask(genpd))
    /\ writes' = Append(writes, <<"SPDCR", mask(genpd)>>)
    /\ retry_count' = PSTR_RETRIES
    /\ pc' = "pd_l52"
    /\ UNCHANGED <<PSTR, SWUCR, genpd, ret, entry_on, polls, polls_set,
                   final_read, delays, hw_dropped, hw_downed>>
    /\ UNCHANGED <<sbvars, dvvars, fwvars>>

\* a polling loop that does not count down
PdPollNoCountdown ==
    /\ pc = "pd_l52"
    /\ polls' = polls + 1
    /\ IF ~TestBit(SPDCR, mask(genpd))
          THEN /\ pc' = "pd_ret"
               /\ ret' = PdResult(retry_count)
               /\ UNCHANGED <<retry_count, polls_set>>
          ELSE /\ polls_set' = polls_set + 1
               /\ UNCHANGED <<retry_count, pc, ret>>
    /\ UNCHANGED <<PSTR, SPDCR, SWUCR, genpd, entry_on, writes,
                   final_read, delays, hw_dropped, hw_downed>>
    /\ UNCHANGED <<sbvars, dvvars, fwvars>>

\* lines 51-55: one iteration of the polling loop
PdPoll ==
    /\ pc = "pd_l52"
    /\ polls' = polls + 1
    /\ IF ~TestBit(SPDCR, mask(genpd))
          THEN \* break
               /\ pc' = "pd_ret"
               /\ ret' = PdResult(retry_count)
               /\ UNCHANGED <<retry_count, polls_set>>
          ELSE \* cpu_relax(); retry_count--
               /\ retry_count' = retry_count - 1
               /\ polls_set' = polls_set + 1
               /\ IF retry_count - 1 = 0
                     THEN /\ pc' = "pd_ret"
                          /\ ret' = PdResult(retry_count - 1)
                     ELSE /\ pc' = "pd_l52"
                          /\ ret' = ret
    /\ UNCHANGED <<PSTR, SPDCR, SWUCR, genpd, entry_on, writes,
                   final_read, delays, hw_dropped, hw_downed>>
    /\ UNCHANGED <<sbvars, dvvars, fwvars>>

----------------------------------------------------------------------------
\* pd_power_up, lines 65-97

\* the framework invokes genpd->power_on; line 70: int ret = 0
CallPowerOn(d) ==
    /\ pc = "idle"
    /\ power_on(d) = "pd_power_up"
    /\ pc' = "pu_l72"
    /\ genpd' = d
    /\ ret' = 0
    /\ retry_count' = 0
    /\ UNCHANGED <<PSTR, SPDCR, SWUCR, entry_on, writes, polls, polls_set,
                   final_read, delays, hw_dropped, hw_downed>>
    /\ UNCHANGED <<sbvars, dvvars, fwvars>>

\* a power-up that never takes the short cut
PuAlreadyOnNever(pstr, m) == FALSE

\* line 72: the domain is already on
PuAlreadyOn(pstr, m) == TestBit(pstr, m)

\* line 77: the polling budget
PuBudget == 2 * PSTR_RETRIES

\* a poll with the test inverted
PuRequestGoneInverted(swucr, m) == TestBit(swucr, m)

\* line 78: the request has been taken
PuRequestGone(swucr, m) == ~TestBit(swucr, m)

\* a loop that delays after every unsuccessful poll
PuDelaysAlways(rc) == rc > 0

\* line 80: the iterations that are followed by udelay
PuDelays(rc) == rc > PSTR_RETRIES

\* a power-up that fails whenever the loop runs out, without the last read
PuFinalResultNoRead(swucr, m, r) == -EIO

\* lines 85-86: the result once the budget is used up
PuFinalResult(swucr, m, r) == IF TestBit(swucr, m) THEN -EIO ELSE r

\* line 72: if (__raw_readl(PSTR) & mask) goto out
PuReadStatus ==
    /\ pc = "pu_l72"
    /\ entry_on' = TestBit(PSTR, mask(genpd))
    /\ pc' = IF PuAlreadyOn(PSTR, mask(genpd)) THEN "pu_ret" ELSE "pu_l75"
    /\ UNCHANGED <<PSTR, SPDCR, SWUCR, genpd, retry_count, ret, writes, polls,
                   polls_set, final_read, delays, hw_dropped, hw_downed>>
    /\ UNCHANGED <<sbvars, dvvars, fwvars>>

\* a power-up that does not issue the request again after a timeout
PuWriteRequestNotRepeated ==
    /\ pc = "pu_l75"
    /\ IF genpd \in failed
          THEN UNCHANGED <<SWUCR, writes>>
          ELSE /\ SWUCR' = RegWrite(SWUCR, mask(genpd))
               /\ writes' = Append(writes, <<"SWUCR", mask(genpd)>>)
    /\ retry_count' = 2 * PSTR_RETRIES
    /\ pc' = "pu_l78"
    /\ UNCHANGED <<PSTR, SPDCR, genpd, ret, entry_on, polls, polls_set,
                   final_read, delays, hw_dropped, hw_downed>>
    /\ UNCHANGED <<sbvars, dvvars, fwvars>>

\* line 75: __raw_writel(mask, SWUCR); line 77: retry_count = 2 * PSTR_RETRIES
PuWriteRequest ==
    /\ pc = "pu_l75"
    /\ SWUCR' = RegWrite(SWUCR, mask(genpd))
    /\ writes' = Append(writes, <<"SWUCR", mask(genpd)>>)
    /\ retry_count' = PuBudget
    /\ pc' = "pu_l78"
    /\ UNCHANGED <<PSTR, SPDCR, genpd, ret, entry_on, polls, polls_set,
                   final_read, delays, hw_dropped, hw_downed>>
    /\ UNCHANGED <<sbvars, dvvars, fwvars>>

\* lines 77-84: one iteration of the polling loop
PuPoll ==
    /\ pc = "pu_l78"
    /\ polls' = polls + 1
    /\ IF PuRequestGone(SWUCR, mask(genpd))
          THEN \* goto out
               /\ pc' = "pu_ret"
               /\ UNCHANGED <<retry_count, polls_set, delays>>
          ELSE \* udelay(PSTR_DELAY_US) or cpu_relax(); retry_count--
               /\ delays' = IF PuDelays(retry_count) THEN delays + 1 ELSE delays
               /\ retry_count' = retry_count - 1
               /\ polls_set' = polls_set + 1
               /\ pc' = IF retry_count - 1 = 0 THEN "pu_l85" ELSE "pu_l78"
    /\ UNCHANGED <<PSTR, SPDCR, SWUCR, genpd, ret, entry_on, writes,
                   final_read, hw_dropped, hw_downed>>
    /\ UNCHANGED <<sbvars, dvvars, fwvars>>

\* lines 85-86: if (__raw_readl(SWUCR) & mask) ret = -EIO
PuFinalCheck ==
    /\ pc = "pu_l85"
    /\ final_read' = IF TestBit(SWUCR, mask(genpd)) THEN "set" ELSE "clear"
    /\ ret' = PuFinalResult(SWUCR, mask(genpd), ret)
    /\ pc' = "pu_ret"
    /\ UNCHANGED <<PSTR, SPDCR, SWUCR, genpd, retry_count, entry_on, writes, polls,
                   polls_set, delays, hw_dropped, hw_downed>>
    /\ UNCHANGED <<sbvars, dvvars, fwvars>>

\* return ret, from pd_power_down (line 62) or pd_power_up (line 96): the
\* framework has the result and the callback's frame is gone
FrameGone ==
    /\ pc \in {"pd_ret", "pu_ret"}
    /\ pc' = "idle"
    /\ genpd' = "none"
    /\ ret' = 0
    /\ retry_count' = 0
    /\ entry_on' = FALSE
    /\ writes' = <<>>
    /\ polls' = 0
    /\ polls_set' = 0
    /\ final_read' = "none"
    /\ delays' = 0
    /\ hw_dropped' = FALSE
    /\ hw_downed' = FALSE
    /\ UNCHANGED <<PSTR, SPDCR, SWUCR>>
    /\ UNCHANGED <<sbvars, dvvars>>

\* the return of a callback the framework called directly
ReturnFrame == wr = "none" /\ FrameGone

Return == ReturnFrame /\ UNCHANGED fwvars

\* the same return, with the framework noting the domains whose latest
\* power-up failed
ReturnNoted ==
    /\ ReturnFrame
    /\ failed' = IF pc = "pu_ret"
                    THEN IF ret = -EIO THEN failed \cup {genpd} ELSE failed \ {genpd}
                    ELSE failed
    /\ UNCHANGED <<wr, wr_ret, wr_log, power_off_work>>

\* Two callbacks at once.  While one CPU is inside a callback for one domain
\* another CPU may be inside pd_power_down or pd_power_up for another domain;
\* all that call does to the registers is its write of line 49 or line 75.
\* wr_log notes which such writes the call in progress has seen.
OtherWrite(reg, e) == <<"__raw_writel", e, 0, <<<<reg, mask(e)>>>> >>

Noted(log, ev) ==
    IF \E i \in 1..Len(log) : log[i] = ev THEN log ELSE Append(log, ev)

\* line 49 of a pd_power_down for domain e running on another CPU
OtherCpuPowerDownWrite(e) ==
    /\ pc \notin {"idle", "pd_ret", "pu_ret"}
    /\ e # genpd
    /\ SPDCR' = RegWrite(SPDCR, mask(e))
    /\ wr_log' = Noted(wr_log, OtherWrite("SPDCR", e))
    /\ UNCHANGED <<PSTR, SWUCR, pc, genpd, retry_count, ret, entry_on, writes, polls,
                   polls_set, final_read, delays, hw_dropped, hw_downed>>
    /\ UNCHANGED <<wr, wr_ret, power_off_work, failed>>
    /\ UNCHANGED <<sbvars, dvvars>>

\* line 75 of a pd_power_up for domain e running on another CPU
OtherCpuPowerUpWrite(e) ==
    /\ pc \notin {"idle", "pd_ret", "pu_ret"}
    /\ e # genpd
    /\ SWUCR' = RegWrite(SWUCR, mask(e))
    /\ wr_log' = Noted(wr_log, OtherWrite("SWUCR", e))
    /\ UNCHANGED <<PSTR, SPDCR, pc, genpd, retry_count, ret, entry_on, writes, polls,
                   polls_set, final_read, delays, hw_dropped, hw_downed>>
    /\ UNCHANGED <<wr, wr_ret, power_off_work, failed>>
    /\ UNCHANGED <<sbvars, dvvars>>

\* the return of the callback in progress
ReturnConcurrent ==
    /\ ReturnFrame
    /\ wr_log' = <<>>
    /\ UNCHANGED <<wr, wr_ret, power_off_work, failed>>

----------------------------------------------------------------------------
\* The A3RV wrappers: pd_power_up_a3rv and pd_power_down_a3rv, lines 99-117.
\* Both are static and nothing in the program calls them or installs them:
\* sh7372_init_pm_domain sets power_off and power_on to pd_power_down and
\* pd_power_up for every domain (lines 176-177).  The actions below are the
\* functions' bodies applied to A3RV directly; they are part of no behaviour
\* of the program (NextPD) and serve only to state what the functions' code
\* does.  wr is the wrapper's position, wr_ret its local ret, wr_log the calls it
\* has made, each with the callee's result and register writes.

WrCall(fn, d, r, w) == <<fn, d, r, w>>

\* the callee's frame: entry to pd_power_up (line 65) or pd_power_down
\* (line 41) on domain d
Enter(entry, d) ==
    /\ pc = "idle"
    /\ pc' = entry
    /\ genpd' = d
    /\ ret' = 0
    /\ retry_count' = 0
    /\ UNCHANGED <<PSTR, SPDCR, SWUCR, entry_on, writes, polls, polls_set,
                   final_read, delays, hw_dropped, hw_downed>>
    /\ UNCHANGED <<sbvars, dvvars>>

\* line 101: int ret = pd_power_up(genpd), the call
CallPowerUpA3rv ==
    /\ wr = "none"
    /\ Enter("pu_l72", "A3RV")
    /\ wr' = "up_l101"
    /\ wr_log' = <<>>
    /\ UNCHANGED <<wr_ret, power_off_work, failed>>

\* line 101: pd_power_up has returned, ret takes its result
WrUpChildReturned ==
    /\ wr = "up_l101"
    /\ FrameGone
    /\ wr_ret' = ret
    /\ wr_log' = Append(wr_log, WrCall("pd_power_up", genpd, ret, writes))
    /\ wr' = "up_l104"
    /\ UNCHANGED <<power_off_work, failed>>

\* line 104: pm_genpd_poweron(&sh7372_a4lc.genpd), which runs the parent's
\* power_on callback
WrForceParentOn ==
    /\ wr = "up_l104"
    /\ Enter("pu_l72", "A4LC")
    /\ wr' = "up_l104_in"
    /\ UNCHANGED <<wr_ret, wr_log, power_off_work, failed>>

\* line 104: pm_genpd_poweron has returned; its result is not kept
WrParentReturned ==
    /\ wr = "up_l104_in"
    /\ FrameGone
    /\ wr_log' = Append(wr_log, WrCall("pm_genpd_poweron", genpd, ret, writes))
    /\ wr' = "up_ret"
    /\ UNCHANGED <<wr_ret, power_off_work, failed>>

\* line 111: int ret = pd_power_down(genpd), the call
CallPowerDownA3rv ==
    /\ wr = "none"
    /\ Enter("pd_l46", "A3RV")
    /\ wr' = "down_l111"
    /\ wr_log' = <<>>
    /\ UNCHANGED <<wr_ret, power_off_work, failed>>

\* lines 111-114: pd_power_down has returned, ret takes its result, and
\* genpd_queue_power_off_work(&sh7372_a4lc.genpd) queues the parent
WrDownChildReturned ==
    /\ wr = "down_l111"
    /\ FrameGone
    /\ wr_ret' = ret
    /\ wr_log' = wr_log \o
                   << WrCall("pd_power_down", genpd, ret, writes),
                      WrCall("genpd_queue_power_off_work", "A4LC", 0, <<>>) >>
    /\ power_off_work' = power_off_work \cup {"A4LC"}
    /\ wr' = "down_ret"
    /\ UNCHANGED failed

\* lines 106 and 116: return ret
WrReturn ==
    /\ wr \in {"up_ret", "down_ret"}
    /\ wr' = "none"
    /\ wr_ret' = 0
    /\ wr_log' = <<>>
    /\ UNCHANGED <<power_off_work, failed>>
    /\ UNCHANGED <<pdvars, sbvars, dvvars>>

\* the framework's deferred power-off work runs for a queued domain and
\* calls its power_off callback
RunPowerOffWork(d) ==
    /\ wr = "none"
    /\ d \in power_off_work
    /\ Enter("pd_l46", d)
    /\ power_off_work' = power_off_work \ {d}
    /\ wr' = "work"
    /\ UNCHANGED <<wr_ret, wr_log, failed>>

\* the work finds the domain still in use and leaves it on
DropPowerOffWork(d) ==
    /\ wr = "none"
    /\ pc = "idle"
    /\ d \in power_off_work
    /\ power_off_work' = power_off_work \ {d}
    /\ UNCHANGED <<wr, wr_ret, wr_log, failed>>
    /\ UNCHANGED <<pdvars, sbvars, dvvars>>

\* the work's power_off callback has returned
WorkReturned ==
    /\ wr = "work"
    /\ FrameGone
    /\ wr' = "none"
    /\ UNCHANGED <<wr_ret, wr_log, power_off_work, failed>>

----------------------------------------------------------------------------
\* Core standby: sh7372_enter_core_standby, lines 247-271

\* __pa(sh7372_cpu_resume), the physical address of the resume entry point
pa_sh7372_cpu_resume == 1073774592
\* the value line 253 writes to SYSTBCR: core standby enabled
SYSTBCR_STANDBY == 16
\* start of RAM, the base __va and __pa convert by
PHYS_OFFSET == 1073741824

\* __va(x): the kernel virtual address of physical address x, that is
\* PAGE_OFFSET + (x - PHYS_OFFSET), kept as base and offset
__va(x) == [base |-> "PAGE_OFFSET", off |-> x - PHYS_OFFSET]

\* the physical address a kernel virtual address stands for
PhysOf(va) == va.off + PHYS_OFFSET

\* The page-table words the resume code may borrow, their contents, and the
\* control-register values of a running kernel
PgdAddrs == {PHYS_OFFSET + 16384, PHYS_OFFSET + 16392}
PteVals == {3102, 7198}
IdMapPte == 1073744910
CrVals == {12917, 12919}
CrReset == 120

SbEvent(kind, a, v) == <<kind, a, v>>

\* the idle or suspend framework calls sh7372_enter_core_standby
CallStandby ==
    /\ sb_pc = "idle"
    /\ sb_pc' = "sb_l251"
    /\ trace' = <<>>
    /\ marker_read' = 0
    /\ lost' = FALSE
    /\ UNCHANGED <<APARMBAREA, SBAR, SYSTBCR, smfram, cpu, pte>>
    /\ UNCHANGED <<pdvars, dvvars, fwvars>>

\* line 251: __raw_writel(0, APARMBAREA)
SbTranslate ==
    /\ sb_pc = "sb_l251"
    /\ APARMBAREA' = 0
    /\ trace' = Append(trace, SbEvent("writel", "APARMBAREA", 0))
    /\ sb_pc' = "sb_l252"
    /\ UNCHANGED <<SBAR, SYSTBCR, smfram, cpu, pte, lost, marker_read>>
    /\ UNCHANGED <<pdvars, dvvars, fwvars>>

\* line 252: __raw_writel(__pa(sh7372_cpu_resume), SBAR)
SbSetVector ==
    /\ sb_pc = "sb_l252"
    /\ SBAR' = pa_sh7372_cpu_resume
    /\ trace' = Append(trace, SbEvent("writel", "SBAR", pa_sh7372_cpu_resume))
    /\ sb_pc' = "sb_l253"
    /\ UNCHANGED <<APARMBAREA, SYSTBCR, smfram, cpu, pte, lost, marker_read>>
    /\ UNCHANGED <<pdvars, dvvars, fwvars>>

\* line 253: __raw_writel(0x10, SYSTBCR)
SbEnableStandby ==
    /\ sb_pc = "sb_l253"
    /\ SYSTBCR' = SYSTBCR_STANDBY
    /\ trace' = Append(trace, SbEvent("writel", "SYSTBCR", SYSTBCR_STANDBY))
    /\ sb_pc' = "sb_l255"
    /\ UNCHANGED <<APARMBAREA, SBAR, smfram, cpu, pte, lost, marker_read>>
    /\ UNCHANGED <<pdvars, dvvars, fwvars>>

\* an entry to sleep that leaves the marker as the last cycle left it
SbClearMarkerSkipped ==
    /\ sb_pc = "sb_l255"
    /\ sb_pc' = "sb_l257"
    /\ UNCHANGED <<APARMBAREA, SBAR, SYSTBCR, smfram, cpu, pte, lost, marker_read,
                   trace>>
    /\ UNCHANGED <<pdvars, dvvars, fwvars>>

\* line 255: __raw_writel(0, smfram + 0x3c)
SbClearMarker ==
    /\ sb_pc = "sb_l255"
    /\ smfram' = [smfram EXCEPT !.o3c = 0]
    /\ trace' = Append(trace, SbEvent("writel", "smfram+0x3c", 0))
    /\ sb_pc' = "sb_l257"
    /\ UNCHANGED <<APARMBAREA, SBAR, SYSTBCR, cpu, pte, lost, marker_read>>
    /\ UNCHANGED <<pdvars, dvvars, fwvars>>

\* line 257: sh7372_cpu_suspend() returns after a wake in which the core
\* was only clock-gated: the scratch record is as it was left
SbSleepGated ==
    /\ sb_pc = "sb_l257"
    /\ cpu' = [cpu EXCEPT !.inited = FALSE]
    /\ trace' = Append(trace, SbEvent("sh7372_cpu_suspend", "gated", 0))
    /\ sb_pc' = "sb_l258"
    /\ UNCHANGED <<APARMBAREA, SBAR, SYSTBCR, smfram, pte, lost, marker_read>>
    /\ UNCHANGED <<pdvars, dvvars, fwvars>>

\* line 257: sh7372_cpu_suspend() returns after the core lost power: the
\* control register was saved at +0x38, the resume code borrowed the
\* page-table word at physical address a, left that address at +0x3c and the
\* word's contents at +0x40, and the core comes back with its reset state
SbSleepPowerLoss(a) ==
    /\ sb_pc = "sb_l257"
    /\ smfram' = [o38 |-> cpu.cr, o3c |-> a, o40 |-> pte[a]]
    /\ pte' = [pte EXCEPT ![a] = IdMapPte]
    /\ cpu' = [cr |-> CrReset, tlb |-> "stale", inited |-> FALSE]
    /\ lost' = TRUE
    /\ trace' = Append(trace, SbEvent("sh7372_cpu_suspend", "power_loss", 0))
    /\ sb_pc' = "sb_l258"
    /\ UNCHANGED <<APARMBAREA, SBAR, SYSTBCR, marker_read>>
    /\ UNCHANGED <<pdvars, dvvars, fwvars>>

\* a wake that goes on to the marker without cpu_init
SbCpuInitSkipped ==
    /\ sb_pc = "sb_l258"
    /\ sb_pc' = "sb_l261"
    /\ UNCHANGED <<APARMBAREA, SBAR, SYSTBCR, smfram, cpu, pte, lost, marker_read,
                   trace>>
    /\ UNCHANGED <<pdvars, dvvars, fwvars>>

\* line 258: cpu_init()
SbCpuInit ==
    /\ sb_pc = "sb_l258"
    /\ cpu' = [cpu EXCEPT !.inited = TRUE]
    /\ trace' = Append(trace, SbEvent("cpu_init", "cpu", 0))
    /\ sb_pc' = "sb_l261"
    /\ UNCHANGED <<APARMBAREA, SBAR, SYSTBCR, smfram, pte, lost, marker_read>>
    /\ UNCHANGED <<pdvars, dvvars, fwvars>>

\* a wake that is always taken for a power loss
SbPoweredDownAlways(marker) == TRUE

\* line 261: a non-NULL page table address: the core has been powered down
SbPoweredDown(marker) == marker # 0

\* line 261: if (__raw_readl(smfram + 0x3c))
SbReadMarker ==
    /\ sb_pc = "sb_l261"
    /\ marker_read' = smfram.o3c
    /\ trace' = Append(trace, SbEvent("readl", "smfram+0x3c", smfram.o3c))
    /\ sb_pc' = IF SbPoweredDown(smfram.o3c) THEN "sb_l262" ELSE "sb_l269"
    /\ UNCHANGED <<APARMBAREA, SBAR, SYSTBCR, smfram, cpu, pte, lost>>
    /\ UNCHANGED <<pdvars, dvvars, fwvars>>

\* a restore that takes the value from the wrong scratch word
SbRestoreValueWrongWord(sm) == sm.o38

\* lines 262-263: what is written, and where
SbRestoreValue(sm) == sm.o40
SbRestoreTarget(sm) == __va(sm.o3c)

\* line 266: the control-register value restored
SbRestoreCr(sm) == sm.o38

\* lines 262-263: __raw_writel(__raw_readl(smfram + 0x40),
\*                             __va(__raw_readl(smfram + 0x3c)))
SbRestorePte ==
    /\ sb_pc = "sb_l262"
    /\ pte' = [pte EXCEPT ![PhysOf(SbRestoreTarget(smfram))] = SbRestoreValue(smfram)]
    /\ trace' = Append(trace, SbEvent("writel_mem", SbRestoreTarget(smfram),
                                      SbRestoreValue(smfram)))
    /\ sb_pc' = "sb_l265"
    /\ UNCHANGED <<APARMBAREA, SBAR, SYSTBCR, smfram, cpu, lost, marker_read>>
    /\ UNCHANGED <<pdvars, dvvars, fwvars>>

\* line 265: flush_tlb_all()
SbFlushTlb ==
    /\ sb_pc = "sb_l265"
    /\ cpu' = [cpu EXCEPT !.tlb = "valid"]
    /\ trace' = Append(trace, SbEvent("flush_tlb_all", "cpu", 0))
    /\ sb_pc' = "sb_l266"
    /\ UNCHANGED <<APARMBAREA, SBAR, SYSTBCR, smfram, pte, lost, marker_read>>
    /\ UNCHANGED <<pdvars, dvvars, fwvars>>

\* line 266: set_cr(__raw_readl(smfram + 0x38))
SbSetCr ==
    /\ sb_pc = "sb_l266"
    /\ cpu' = [cpu EXCEPT !.cr = SbRestoreCr(smfram)]
    /\ trace' = Append(trace, SbEvent("set_cr", "cpu", SbRestoreCr(smfram)))
    /\ sb_pc' = "sb_l269"
    /\ UNCHANGED <<APARMBAREA, SBAR, SYSTBCR, smfram, pte, lost, marker_read>>
    /\ UNCHANGED <<pdvars, dvvars, fwvars>>

\* line 269: __raw_writel(0, SYSTBCR)
SbDisableStandby ==
    /\ sb_pc = "sb_l269"
    /\ SYSTBCR' = 0
    /\ trace' = Append(trace, SbEvent("writel", "SYSTBCR", 0))
    /\ sb_pc' = "sb_l270"
    /\ UNCHANGED <<APARMBAREA, SBAR, smfram, cpu, pte, lost, marker_read>>
    /\ UNCHANGED <<pdvars, dvvars, fwvars>>

\* a Done step that leaves the reset vector redirected
SbClearVectorSkipped ==
    /\ sb_pc = "sb_l270"
    /\ sb_pc' = "sb_ret"
    /\ UNCHANGED <<APARMBAREA, SBAR, SYSTBCR, smfram, cpu, pte, lost, marker_read, trace>>
    /\ UNCHANGED <<pdvars, dvvars, fwvars>>

\* line 270: __raw_writel(0, SBAR)
SbClearVector ==
    /\ sb_pc = "sb_l270"
    /\ SBAR' = 0
    /\ trace' = Append(trace, SbEvent("writel", "SBAR", 0))
    /\ sb_pc' = "sb_ret"
    /\ UNCHANGED <<APARMBAREA, SYSTBCR, smfram, cpu, pte, lost, marker_read>>
    /\ UNCHANGED <<pdvars, dvvars, fwvars>>

\* line 271: sh7372_enter_core_standby returns
SbReturn ==
    /\ sb_pc = "sb_ret"
    /\ sb_pc' = "idle"
    /\ trace' = <<>>
    /\ marker_read' = 0
    /\ lost' = FALSE
    /\ UNCHANGED <<APARMBAREA, SBAR, SYSTBCR, smfram, cpu, pte>>
    /\ UNCHANGED <<pdvars, dvvars, fwvars>>

----------------------------------------------------------------------------
\* Device stop/start adapter: sh7372_stop_dev and sh7372_start_dev,
\* lines 137-164

\* the devices attached to the domains
NumDevs == 2
Devs == 1..NumDevs

\* what a custom hook or a clock operation may return: 0, an errno, or a
\* positive value
Rets == {-16, -EIO, 0, 1}

\* a check that takes only negative values for failures
StopHookFailedNegative(r) == r < 0

\* line 144: if (ret) return ret
StopHookFailed(r) == r # 0
\* line 156: if (ret) return ret
ClkResumeFailed(r) == r # 0

\* the framework calls genpd->dev_ops.stop
CallStopDev(dev) ==
    /\ dv_pc = "idle"
    /\ dv_pc' = "st_l141"
    /\ dv_dev' = dev
    /\ dv_steps' = <<>>
    /\ dv_ret' = 0
    /\ UNCHANGED <<ops, clk_on, dev_running>>
    /\ UNCHANGED <<pdvars, sbvars, fwvars>>

\* lines 141-146: the custom stop hook, when there is one
StopHook(r) ==
    /\ dv_pc = "st_l141"
    /\ IF ops[dv_dev].stop
          THEN /\ dv_steps' = Append(dv_steps, <<"stop", r>>)
               /\ dev_running' = IF r = 0 THEN dev_running \ {dv_dev} ELSE dev_running
               /\ IF StopHookFailed(r)
                     THEN dv_pc' = "dv_ret" /\ dv_ret' = r
                     ELSE dv_pc' = "st_l147" /\ dv_ret' = dv_ret
          ELSE /\ r = 0
               /\ dv_pc' = "st_l147"
               /\ UNCHANGED <<dv_steps, dev_running, dv_ret>>
    /\ UNCHANGED <<ops, dv_dev, clk_on>>
    /\ UNCHANGED <<pdvars, sbvars, fwvars>>

\* line 147: return pm_clk_suspend(dev)
StopClocks(r) ==
    /\ dv_pc = "st_l147"
    /\ dv_steps' = Append(dv_steps, <<"pm_clk_suspend", r>>)
    /\ clk_on' = IF r = 0 THEN clk_on \ {dv_dev} ELSE clk_on
    /\ dv_ret' = r
    /\ dv_pc' = "dv_ret"
    /\ UNCHANGED <<ops, dv_dev, dev_running>>
    /\ UNCHANGED <<pdvars, sbvars, fwvars>>

\* the framework calls genpd->dev_ops.start
CallStartDev(dev) ==
    /\ dv_pc = "idle"
    /\ dv_pc' = "sa_l155"
    /\ dv_dev' = dev
    /\ dv_steps' = <<>>
    /\ dv_ret' = 0
    /\ UNCHANGED <<ops, clk_on, dev_running>>
    /\ UNCHANGED <<pdvars, sbvars, fwvars>>

\* lines 155-157: ret = pm_clk_resume(dev); if (ret) return ret
StartClocks(r) ==
    /\ dv_pc = "sa_l155"
    /\ dv_steps' = Append(dv_steps, <<"pm_clk_resume", r>>)
    /\ clk_on' = IF r = 0 THEN clk_on \cup {dv_dev} ELSE clk_on
    /\ dv_ret' = r
    /\ dv_pc' = IF ClkResumeFailed(r) THEN "dv_ret" ELSE "sa_l159"
    /\ UNCHANGED <<ops, dv_dev, dev_running>>
    /\ UNCHANGED <<pdvars, sbvars, fwvars>>

\* lines 159-163: the custom start hook, when there is one; return ret
StartHook(r) ==
    /\ dv_pc = "sa_l159"
    /\ IF ops[dv_dev].start
          THEN /\ dv_steps' = Append(dv_steps, <<"start", r>>)
               /\ dev_running' = IF r = 0 THEN dev_running \cup {dv_dev} ELSE dev_running
               /\ dv_ret' = r
          ELSE /\ r = 0
               /\ UNCHANGED <<dv_steps, dev_running, dv_ret>>
    /\ dv_pc' = "dv_ret"
    /\ UNCHANGED <<ops, dv_dev, clk_on>>
    /\ UNCHANGED <<pdvars, sbvars, fwvars>>

\* the adapter returns dv_ret to the framework
DevReturn ==
    /\ dv_pc = "dv_ret"
    /\ dv_pc' = "idle"
    /\ dv_dev' = 0
    /\ dv_steps' = <<>>
    /\ dv_ret' = 0
    /\ UNCHANGED <<ops, clk_on, dev_running>>
    /\ UNCHANGED <<pdvars, sbvars, fwvars>>

----------------------------------------------------------------------------
InitPD ==
    /\ PSTR = AllOn
    /\ SPDCR = 0
    /\ SWUCR = 0
    /\ pc = "idle"
    /\ genpd = "none"
    /\ retry_count = 0
    /\ ret = 0
    /\ entry_on = FALSE
    /\ writes = <<>>
    /\ polls = 0
    /\ polls_set = 0
    /\ final_read = "none"
    /\ delays = 0
    /\ hw_dropped = FALSE
    /\ hw_downed = FALSE

InitSB ==
    /\ sb_pc = "idle"
    /\ APARMBAREA = 0
    /\ SBAR = 0
    /\ SYSTBCR = 0
    /\ smfram = [o38 |-> 0, o3c |-> 0, o40 |-> 0]
    /\ cpu \in {[cr |-> c, tlb |-> "valid", inited |-> TRUE] : c \in CrVals}
    /\ pte \in [PgdAddrs -> PteVals]
    /\ lost = FALSE
    /\ marker_read = 0
    /\ trace = <<>>

InitDV ==
    /\ ops \in [Devs -> [stop : BOOLEAN, start : BOOLEAN]]
    /\ dv_pc = "idle"
    /\ dv_dev = 0
    /\ dv_ret = 0
    /\ dv_steps = <<>>
    /\ clk_on = Devs
    /\ dev_running = Devs

InitFW ==
    /\ wr = "none"
    /\ wr_ret = 0
    /\ wr_log = <<>>
    /\ power_off_work = {}
    /\ failed = {}

\* One of the three parts runs in a behaviour; the other two rest in one of
\* their initial states.
RestSB == InitSB /\ cpu.cr = 12917 /\ pte = [a \in PgdAddrs |-> 3102]
RestDV == InitDV /\ ops = [dev \in Devs |-> [stop |-> FALSE, start |-> FALSE]]

PDInit == InitPD /\ InitFW /\ RestSB /\ RestDV
SBInit == InitPD /\ InitFW /\ InitSB /\ RestDV
DVInit == InitPD /\ InitFW /\ RestSB /\ InitDV

NextPD ==
    \/ \E d \in Active : CallPowerOff(d)
    \/ PdReadStatus
    \/ PdWriteRequest
    \/ PdPoll
    \/ \E d \in Active : CallPowerOn(d)
    \/ PuReadStatus
    \/ PuWriteRequest
    \/ PuPoll
    \/ PuFinalCheck
    \/ Return
    \/ \E d \in Active : HwPowerUpDone(d)
    \/ \E d \in Active : HwPowerUpDropped(d)
    \/ \E d \in Active : HwPowerDownDone(d)
    \/ \E d \in Active : HwPowerDownDropped(d)

SpecPD == PDInit /\ [][NextPD]_vars

\* The same callbacks on the child domain and its parent, with the framework
\* noting the power-ups that failed
Family == {"A3RV", "A4LC"}

NextRT ==
    \/ \E d \in Family : CallPowerOff(d)
    \/ PdReadStatus
    \/ PdWriteRequest
    \/ PdPoll
    \/ \E d \in Family : CallPowerOn(d)
    \/ PuReadStatus
    \/ PuWriteRequest
    \/ PuPoll
    \/ PuFinalCheck
    \/ ReturnNoted
    \/ \E d \in Family : HwPowerUpDone(d)
    \/ \E d \in Family : HwPowerUpDropped(d)
    \/ \E d \in Family : HwPowerDownDone(d)
    \/ \E d \in Family : HwPowerDownDropped(d)

SpecRT == PDInit /\ [][NextRT]_vars

\* The callbacks with the CPU that runs them: once entered, a callback's next
\* statement is executed; nothing is assumed of the hardware or of the
\* framework's calls
CallbackStep ==
    \/ PdReadStatus
    \/ PdWriteRequest
    \/ PdPoll
    \/ PuReadStatus
    \/ PuWriteRequest
    \/ PuPoll
    \/ PuFinalCheck

NextLV ==
    \/ \E d \in Family : CallPowerOff(d)
    \/ \E d \in Family : CallPowerOn(d)
    \/ CallbackStep
    \/ Return
    \/ \E d \in Family : HwPowerUpDone(d)
    \/ \E d \in Family : HwPowerUpDropped(d)
    \/ \E d \in Family : HwPowerDownDone(d)
    \/ \E d \in Family : HwPowerDownDropped(d)

SpecLV == PDInit /\ [][NextLV]_vars /\ WF_vars(CallbackStep)

\* The callbacks of the child and its parent, each while the other's
\* callback may be running on another CPU
NextCC ==
    \/ \E d \in Family : CallPowerOff(d)
    \/ PdReadStatus
    \/ PdWriteRequest
    \/ PdPoll
    \/ \E d \in Family : CallPowerOn(d)
    \/ PuReadStatus
    \/ PuWriteRequest
    \/ PuPoll
    \/ PuFinalCheck
    \/ ReturnConcurrent
    \/ \E e \in Family : OtherCpuPowerDownWrite(e)
    \/ \E e \in Family : OtherCpuPowerUpWrite(e)
    \/ \E d \in Family : HwPowerUpDone(d)
    \/ \E d \in Family : HwPowerUpDropped(d)
    \/ \E d \in Family : HwPowerDownDone(d)
    \/ \E d \in Family : HwPowerDownDropped(d)

SpecCC == PDInit /\ [][NextCC]_vars

\* The bodies of the A3RV wrappers applied directly, with the callbacks they
\* run and the framework's deferred work.  This is a harness for the two
\* functions, not the program: in the program the callbacks of A3RV are
\* pd_power_down and pd_power_up (NextPD) and the wrappers never run.
NextWR ==
    \/ CallPowerUpA3rv
    \/ WrUpChildReturned
    \/ WrForceParentOn
    \/ WrParentReturned
    \/ CallPowerDownA3rv
    \/ WrDownChildReturned
    \/ WrReturn
    \/ \E d \in Family : RunPowerOffWork(d)
    \/ \E d \in Family : DropPowerOffWork(d)
    \/ WorkReturned
    \/ PdReadStatus
    \/ PdWriteRequest
    \/ PdPoll
    \/ PuReadStatus
    \/ PuWriteRequest
    \/ PuPoll
    \/ PuFinalCheck
    \/ \E d \in Family : HwPowerUpDone(d)
    \/ \E d \in Family : HwPowerUpDropped(d)
    \/ \E d \in Family : HwPowerDownDone(d)
    \/ \E d \in Family : HwPowerDownDropped(d)

SpecWR == PDInit /\ [][NextWR]_vars

NextSB ==
    \/ CallStandby
    \/ SbTranslate
    \/ SbSetVector
    \/ SbEnableStandby
    \/ SbClearMarker
    \/ SbSleepGated
    \/ \E a \in PgdAddrs : SbSleepPowerLoss(a)
    \/ SbCpuInit
    \/ SbReadMarker
    \/ SbRestorePte
    \/ SbFlushTlb
    \/ SbSetCr
    \/ SbDisableStandby
    \/ SbClearVector
    \/ SbReturn

SpecSB == SBInit /\ [][NextSB]_vars

NextDV ==
    \/ \E dev \in Devs : CallStopDev(dev)
    \/ \E r \in Rets : StopHook(r)
    \/ \E r \in Rets : StopClocks(r)
    \/ \E dev \in Devs : CallStartDev(dev)
    \/ \E r \in Rets : StartClocks(r)
    \/ \E r \in Rets : StartHook(r)
    \/ DevReturn

SpecDV == DVInit /\ [][NextDV]_vars

----------------------------------------------------------------------------
\* Properties of pd_power_up and pd_power_down (SpecPD)

PowerUpReturned == pc = "pu_ret"
PowerDownReturned == pc = "pd_ret"

\* a read of SWUCR in the call in progress has shown the request bit clear
RequestSeenClear == polls > polls_set \/ final_read = "clear"

\* C1, as claimed: when pd_power_up returns, it returns -EIO or the domain's
\* PSTR bit is set, whatever the hardware does.
C1_StatusSetOrTimeout ==
    PowerUpReturned /\ ret # -EIO => TestBit(PSTR, mask(genpd))

\* C1, amended: when pd_power_up returns without -EIO, its first PSTR read
\* showed the bit set or one of its SWUCR reads showed the request bit clear;
\* the PSTR bit is then set unless the hardware, during the call, cleared the
\* request without powering the domain up or completed an earlier power-down
\* request of the domain.
C1_StatusSetIfHardwareCompleted ==
    PowerUpReturned /\ ret # -EIO =>
        /\ ret = 0
        /\ entry_on \/ RequestSeenClear
        /\ (~hw_dropped /\ ~hw_downed) => TestBit(PSTR, mask(genpd))

C1_Witness ==
    /\ PowerUpReturned
    /\ ret = 0
    /\ ~entry_on
    /\ polls_set > 2
    /\ ~hw_dropped
    /\ ~hw_downed
    /\ TestBit(PSTR, mask(genpd))

\* C2: whenever the power_on callback the framework invokes for A3RV returns
\* success, the PSTR bit of its parent A4LC is set.
C2_ParentOnWhenChildPoweredOn ==
    PowerUpReturned /\ genpd = "A3RV" /\ ret = 0 => TestBit(PSTR, mask("A4LC"))

\* C3: pd_power_down returns 0 for every domain and every hardware response,
\* a request bit that outlasts the polling budget included.
C3_PowerDownReturnsZero ==
    PowerDownReturned => ret = 0

C3_Witness ==
    /\ PowerDownReturned
    /\ writes = <<<<"SPDCR", mask(genpd)>>>>
    /\ polls_set = PSTR_RETRIES
    /\ TestBit(SPDCR, mask(genpd))
    /\ ret = 0

\* C4: pd_power_up on a domain whose PSTR bit is set at the first read
\* returns 0 and writes neither SWUCR nor SPDCR, however often it is called.
C4_AlreadyOnWritesNothing ==
    pc \in {"pu_l75", "pu_l78", "pu_l85", "pu_ret"} /\ entry_on =>
        /\ pc = "pu_ret"
        /\ ret = 0
        /\ writes = <<>>
        /\ polls = 0

C4_Witness ==
    /\ PowerUpReturned
    /\ entry_on
    /\ writes = <<>>
    /\ ret = 0
    /\ TestBit(SWUCR, mask(genpd))

\* C5, as claimed: pd_power_up returns -EIO exactly when the PSTR bit was
\* clear and the SWUCR bit was seen set in all 200 polls of the loop.
C5_TimeoutIffAllPollsSet ==
    PowerUpReturned =>
        (ret = -EIO <=> (~entry_on /\ polls_set = 2 * PSTR_RETRIES))

\* C5, amended: pd_power_up returns -EIO exactly when the PSTR bit was clear,
\* the SWUCR bit was seen set in all 200 polls of the loop and it is still
\* set at the read that follows the loop; a request bit that clears between
\* the 200th poll and that read yields success.
C5_TimeoutIffStillSetAfterLoop ==
    PowerUpReturned =>
        /\ ret = -EIO <=>
              (~entry_on /\ polls_set = 2 * PSTR_RETRIES /\ final_read = "set")
        /\ final_read # "none" <=> (~entry_on /\ polls_set = 2 * PSTR_RETRIES)

C5_Witness ==
    /\ PowerUpReturned
    /\ ~entry_on
    /\ polls_set = 2 * PSTR_RETRIES
    /\ final_read = "set"
    /\ ret = -EIO

\* C6: no pd_power_down call writes the bit of a stay_on domain to SPDCR.
C6_StayOnNeverRequestedDown ==
    \A i \in 1..Len(writes) :
        stay_on(genpd) => writes[i] # <<"SPDCR", mask(genpd)>>

----------------------------------------------------------------------------
\* Properties of sh7372_enter_core_standby (SpecSB)

StandbyReturned == sb_pc = "sb_ret"

\* the kinds of the restore steps of lines 262-266
RestoreKinds == {"writel_mem", "flush_tlb_all", "set_cr"}

\* the events from the read of the marker on
AfterCpuInit ==
    LET at == {i \in 1..Len(trace) : trace[i][1] = "readl"}
    IN  IF at = {} THEN <<>>
        ELSE SubSeq(trace, CHOOSE i \in at : \A j \in at : i <= j, Len(trace))

\* the two writes of the Done step, lines 269-270
DoneWrites == <<SbEvent("writel", "SYSTBCR", 0), SbEvent("writel", "SBAR", 0)>>

\* C7: when the marker at smfram+0x3c reads zero after the wake, the
\* procedure returns without a page-table restore, a TLB flush or a
\* control-register restore.
C7_NoRestoreWhenMarkerZero ==
    StandbyReturned /\ marker_read = 0 =>
        /\ \A i \in 1..Len(trace) : trace[i][1] \notin RestoreKinds
        /\ AfterCpuInit = <<SbEvent("readl", "smfram+0x3c", 0)>> \o DoneWrites

C7_Witness ==
    /\ StandbyReturned
    /\ marker_read = 0
    /\ ~lost
    /\ \E i \in 1..Len(trace) : trace[i][1] = "sh7372_cpu_suspend"

\* C8: when the marker reads non-zero after the wake, the procedure writes
\* the word saved at smfram+0x40 to the virtual address of the marker, then
\* flushes the whole TLB, then sets the control register to the value saved at
\* smfram+0x38, each once and in that order, and only then disables standby
\* mode, clears the reset vector and returns.
C8_RestoreSequenceWhenMarkerSet ==
    StandbyReturned /\ marker_read # 0 =>
        /\ AfterCpuInit =
              << SbEvent("readl", "smfram+0x3c", marker_read),
                 SbEvent("writel_mem", __va(smfram.o3c), smfram.o40),
                 SbEvent("flush_tlb_all", "cpu", 0),
                 SbEvent("set_cr", "cpu", smfram.o38) >> \o DoneWrites
        /\ smfram.o3c = marker_read
        /\ pte[marker_read] = smfram.o40
        /\ pte[marker_read] \in PteVals
        /\ cpu = [cr |-> smfram.o38, tlb |-> "valid", inited |-> TRUE]

C8_Witness ==
    /\ StandbyReturned
    /\ lost
    /\ marker_read \in PgdAddrs
    /\ Len(AfterCpuInit) = 6
    /\ cpu.cr \in CrVals

\* C9: whenever the procedure returns, on either wake path, its last two
\* actions were the writes of 0 to SYSTBCR and to SBAR, in that order; between
\* standby cycles both registers are 0.
C9_StandbyOffAndVectorClearedLast ==
    /\ StandbyReturned =>
          /\ Len(trace) >= 2
          /\ SubSeq(trace, Len(trace) - 1, Len(trace)) = DoneWrites
    /\ sb_pc \in {"sb_ret", "idle"} => SYSTBCR = 0 /\ SBAR = 0

C9_Witness ==
    /\ sb_pc = "idle"
    /\ smfram.o3c # 0
    /\ SYSTBCR = 0
    /\ SBAR = 0

----------------------------------------------------------------------------
\* Properties of sh7372_stop_dev and sh7372_start_dev (SpecDV)

\* C10: the clocks are suspended only if there is no custom stop hook or it
\* returned 0, the custom start hook runs only if the clock resume returned 0,
\* and a first step that fails is the only step, its value returned unchanged.
C10_ClocksBracketHooks ==
    /\ \A i \in 1..Len(dv_steps) :
          dv_steps[i][1] = "pm_clk_suspend" =>
              \/ i = 1 /\ ~ops[dv_dev].stop
              \/ i = 2 /\ ops[dv_dev].stop /\ dv_steps[1] = <<"stop", 0>>
    /\ \A i \in 1..Len(dv_steps) :
          dv_steps[i][1] = "start" =>
              i = 2 /\ dv_steps[1] = <<"pm_clk_resume", 0>>
    /\ dv_pc = "dv_ret" =>
          /\ Len(dv_steps) >= 1
          /\ dv_steps[1][2] # 0 => Len(dv_steps) = 1 /\ dv_ret = dv_steps[1][2]
          /\ dv_ret = dv_steps[Len(dv_steps)][2]

C10_Witness ==
    /\ dv_pc = "dv_ret"
    /\ dv_steps = <<<<"stop", 1>>>>
    /\ dv_ret = 1
    /\ dv_dev \in clk_on

\* C14: pd_power_down writes SPDCR (once, the domain's mask) exactly when its
\* read of PSTR showed the domain's bit set; when the bit was clear it writes
\* nothing, polls nothing and returns 0.
C14_PowerDownWritesIffStatusSet ==
    /\ pc \in {"pd_l49", "pd_l52"} => entry_on
    /\ pc = "pd_l52" => writes = <<<<"SPDCR", mask(genpd)>>>>
    /\ PowerDownReturned =>
          /\ writes = <<<<"SPDCR", mask(genpd)>>>> <=> entry_on
          /\ ~entry_on => writes = <<>> /\ polls = 0 /\ ret = 0

C14_Witness ==
    /\ PowerDownReturned
    /\ ~entry_on
    /\ writes = <<>>
    /\ polls = 0
    /\ ret = 0
    /\ ~TestBit(SPDCR, mask(genpd))

\* the time spent in udelay so far, in microseconds
DelayedUs == delays * PSTR_DELAY_US

\* C15: one pd_power_up call polls SWUCR in at most 200 loop iterations and
\* leaves the loop at the first poll that sees the request bit clear; a
\* 10 us delay follows each unsuccessful poll among the first 100 iterations
\* and none follows the other 100, so a call delays at most 100 times.
C15_TwoPhasePolling ==
    InPowerUp \/ PowerUpReturned =>
        /\ polls <= 200
        /\ polls_set <= polls /\ polls <= polls_set + 1
        /\ polls = polls_set + 1 => pc = "pu_ret" /\ final_read = "none"
        /\ pc = "pu_l78" => polls = polls_set /\ polls < 200
        /\ pc = "pu_l85" \/ final_read # "none" => polls_set = 200
        /\ delays = (IF polls_set <= 100 THEN polls_set ELSE 100)
        /\ DelayedUs = 10 * delays
        /\ retry_count = (IF polls = 0 /\ pc \notin {"pu_l78", "pu_l85"}
                             THEN 0 ELSE 200 - polls_set)

C15_Witness ==
    /\ PowerUpReturned
    /\ polls = 200
    /\ polls_set = 199
    /\ delays = 100
    /\ ret = 0

\* the positions of the sleeps in the trace of the cycle
SleepsAt == {i \in 1..Len(trace) : trace[i][1] = "sh7372_cpu_suspend"}

\* C17: in every standby cycle, also one that follows a wake from a power
\* loss, sh7372_cpu_suspend starts with the marker at smfram+0x3c zero, SBAR
\* holding the physical address of sh7372_cpu_resume and SYSTBCR holding 0x10;
\* so a marker that is non-zero after the wake was written during the sleep
\* of that same cycle.
C17_SleepStartsArmedWithMarkerClear ==
    /\ sb_pc = "sb_l257" =>
          /\ smfram.o3c = 0
          /\ SBAR = pa_sh7372_cpu_resume
          /\ SYSTBCR = SYSTBCR_STANDBY
          /\ APARMBAREA = 0
          /\ SleepsAt = {}
    /\ sb_pc \in {"sb_l258", "sb_l261"} /\ ~lost => smfram.o3c = 0
    /\ sb_pc \in {"sb_l258", "sb_l261"} /\ lost => smfram.o3c \in PgdAddrs
    /\ marker_read # 0 => lost

C17_Witness ==
    /\ sb_pc = "sb_l257"
    /\ smfram.o3c = 0
    /\ smfram.o40 # 0
    /\ smfram.o38 # 0
    /\ ~lost

\* C18: once the sleep has returned cpu_init is the first thing done: it is
\* the event that follows the sleep, before the read of the marker, any
\* restore step and either write of the Done step.
C18_CpuInitFirstAfterWake ==
    /\ Cardinality(SleepsAt) <= 1
    /\ \A i \in SleepsAt :
          /\ \A j \in 1..(i - 1) : trace[j][1] = "writel"
          /\ i < Len(trace) => trace[i + 1] = SbEvent("cpu_init", "cpu", 0)
          /\ i = Len(trace) <=> sb_pc = "sb_l258"
          /\ \A j \in (i + 2)..Len(trace) :
                trace[j][1] \in RestoreKinds \cup {"readl", "writel"}
    /\ sb_pc = "sb_l258" => ~cpu.inited
    /\ sb_pc \in {"sb_l261", "sb_l262", "sb_l265", "sb_l266", "sb_l269",
                  "sb_l270", "sb_ret"} => cpu.inited /\ SleepsAt # {}

C18_Witness ==
    /\ sb_pc = "sb_l262"
    /\ lost
    /\ cpu.inited
    /\ Len(trace) = 7
    /\ trace[5][1] = "sh7372_cpu_suspend"
    /\ trace[6][1] = "cpu_init"
    /\ trace[7][1] = "readl"

\* C11: a power-down of the child A3RV, that is the power_off callback the
\* framework runs for it, never writes the parent's bit to SPDCR itself: its
\* writes are the child's own mask only, and when it returns, its own
\* power-down sequence finished, it has queued the parent A4LC for the
\* framework's deferred power-off.
C11_ChildPowerDownQueuesParent ==
    /\ pc \in {"pd_l46", "pd_l49", "pd_l52", "pd_ret"} /\ genpd = "A3RV" =>
          /\ \A i \in 1..Len(writes) : writes[i] = <<"SPDCR", mask("A3RV")>>
          /\ pc # "pd_ret" => "A4LC" \notin power_off_work
    /\ PowerDownReturned /\ genpd = "A3RV" => "A4LC" \in power_off_work

----------------------------------------------------------------------------
\* Properties of repeated power-ups (SpecRT)

\* C12: no error is latched.  A pd_power_up on a domain whose latest power-up
\* returned -EIO and whose PSTR bit is still clear writes the domain's mask to
\* SWUCR again, and returns 0 exactly when one of its reads of SWUCR shows the
\* request bit clear.
C12_RetryAfterTimeout ==
    genpd \in failed /\ ~entry_on =>
        /\ pc \in {"pu_l78", "pu_l85", "pu_ret"} =>
              writes = <<<<"SWUCR", mask(genpd)>>>>
        /\ PowerUpReturned => (ret = 0 <=> RequestSeenClear)
        /\ PowerUpReturned => (ret = -EIO <=> ~RequestSeenClear)

C12_Witness ==
    /\ PowerUpReturned
    /\ genpd \in failed
    /\ ~entry_on
    /\ writes = <<<<"SWUCR", mask(genpd)>>>>
    /\ polls_set > 0
    /\ ret = 0
    /\ TestBit(PSTR, mask(genpd))

\* the number of bits set in x
RECURSIVE PopCount(_)
PopCount(x) == IF x = 0 THEN 0 ELSE (x % 2) + PopCount(x \div 2)

\* the domains whose bit is set in a register value
DomainsIn(reg) == {d \in Domains : TestBit(reg, mask(d))}

\* the register value with exactly the bits of the domains in S set
RECURSIVE RegOf(_)
RegOf(S) ==
    IF S = {} THEN 0
    ELSE LET d == CHOOSE x \in S : TRUE
         IN  2 ^ bit_shift(d) + RegOf(S \ {d})

\* C13: the masks of the eight domains are pairwise distinct single-bit
\* values below bit 32, and they stay so: in every state each of PSTR, SPDCR
\* and SWUCR is the sum of the masks of the domains it shows, and every value
\* written is the one bit of the domain of the call.
C13_MasksDistinctSingleBit ==
    /\ \A d, e \in Domains : d # e => mask(d) # mask(e)
    /\ \A d \in Domains : bit_shift(d) \in 0..(RegWidth - 1) /\ PopCount(mask(d)) = 1
    /\ Cardinality({mask(d) : d \in Domains}) = 8
    /\ \A reg \in {PSTR, SPDCR, SWUCR} :
          /\ reg = RegOf(DomainsIn(reg))
          /\ PopCount(reg) = Cardinality(DomainsIn(reg))
    /\ \A i \in 1..Len(writes) :
          PopCount(writes[i][2]) = 1 /\ DomainsIn(writes[i][2]) = {genpd}

C13_Witness ==
    /\ DomainsIn(SPDCR) = {"A3RV", "A4LC"}
    /\ SPDCR = 66
    /\ DomainsIn(SWUCR) = {"A3RV", "A4LC"}
    /\ pc = "pd_l52"
    /\ writes = <<<<"SPDCR", 64>>>>

----------------------------------------------------------------------------
\* Termination of the callbacks (SpecLV)

InCallback == pc \notin {"idle", "pd_ret", "pu_ret"}
AtReturn == pc \in {"pd_ret", "pu_ret"}

\* the loops count down: pd_power_down has polled at most PSTR_RETRIES times,
\* pd_power_up at most twice that, and what is left of the budget is
\* retry_count
LoopsBounded ==
    /\ pc \in {"pd_l52", "pd_ret"} /\ writes # <<>> =>
          /\ polls <= PSTR_RETRIES
          /\ retry_count = PSTR_RETRIES - polls_set
    /\ pc \in {"pd_l46", "pd_l49"} => polls = 0
    /\ InPowerUp => polls <= 2 * PSTR_RETRIES
    /\ pc \in {"pu_l78", "pu_l85"} => retry_count = 2 * PSTR_RETRIES - polls_set
    /\ retry_count >= 0

\* C16: every call of pd_power_down and of pd_power_up returns, whatever the
\* hardware does: pd_power_down polls at most 100 times and the loop of
\* pd_power_up is bounded as well.
C16_CallbacksReturn ==
    []LoopsBounded /\ (InCallback ~> AtReturn)

C16_Witness ==
    /\ PowerUpReturned
    /\ polls = 2 * PSTR_RETRIES
    /\ final_read = "set"
    /\ ret = -EIO
    /\ TestBit(SWUCR, mask(genpd))
    /\ ~TestBit(PSTR, mask(genpd))
    /\ ~hw_dropped

----------------------------------------------------------------------------
\* Properties of two callbacks at once (SpecCC)

\* the register a callback at this position writes its request to
OwnRegister == IF InPowerUp THEN "SWUCR" ELSE "SPDCR"

\* a step of the callback in progress, as against one of the hardware or of
\* the other CPU
CodeStep == pc' # pc \/ polls' # polls

\* the bits of domain e are the same before and after the step
BitsKept(e) ==
    /\ TestBit(PSTR', mask(e)) <=> TestBit(PSTR, mask(e))
    /\ TestBit(SPDCR', mask(e)) <=> TestBit(SPDCR, mask(e))
    /\ TestBit(SWUCR', mask(e)) <=> TestBit(SWUCR, mask(e))

\* the callback in progress writes exactly its domain's mask, once, to its
\* own request register, and returns what its own reads determine
OwnWritesAndResult ==
    /\ Len(writes) <= 1
    /\ \A i \in 1..Len(writes) : writes[i] = <<OwnRegister, mask(genpd)>>
    /\ PowerDownReturned => ret = 0
    /\ PowerUpReturned => ret \in {0, -EIO}
    /\ PowerUpReturned => (ret = 0 <=> entry_on \/ RequestSeenClear)

\* a step of the callback changes no bit of another domain, and sets its own
\* bit in its own request register only; a step of anything else while the
\* callback runs sets no request bit of the callback's domain
NoCrossTalk ==
    /\ CodeStep =>
          /\ \A e \in Domains \ {genpd} : BitsKept(e)
          /\ PSTR' = PSTR
          /\ pc = "pd_l49" => SPDCR' = RegWrite(SPDCR, mask(genpd)) /\ SWUCR' = SWUCR
          /\ pc = "pu_l75" => SWUCR' = RegWrite(SWUCR, mask(genpd)) /\ SPDCR' = SPDCR
          /\ pc \notin {"pd_l49", "pu_l75"} => SPDCR' = SPDCR /\ SWUCR' = SWUCR
    /\ ~CodeStep /\ genpd # "none" =>
          /\ TestBit(SPDCR', mask(genpd)) => TestBit(SPDCR, mask(genpd))
          /\ TestBit(SWUCR', mask(genpd)) => TestBit(SWUCR, mask(genpd))
          /\ UNCHANGED <<pc, genpd, ret, retry_count, writes, polls, polls_set>>

\* C19: every write of pd_power_up or pd_power_down for a domain has exactly
\* that domain's mask as its value and goes to the matching register (SWUCR
\* for up, SPDCR for down), the value never being built from the register's
\* contents; so with a callback for another domain writing its requests in
\* between, neither sets or clears the other's request bits and the callback
\* returns what its own domain's bits alone determine.
C19_TransitionsDoNotInterfere ==
    []OwnWritesAndResult /\ [][NoCrossTalk]_vars

C19_Witness ==
    /\ PowerDownReturned
    /\ genpd = "A3RV"
    /\ writes = <<<<"SPDCR", mask("A3RV")>>>>
    /\ Len(wr_log) = 2
    /\ OtherWrite("SPDCR", "A4LC") = wr_log[1]
    /\ TestBit(SPDCR, mask("A4LC"))
    /\ ~TestBit(SPDCR, mask("A3RV"))
    /\ polls_set > 0
    /\ ret = 0

----------------------------------------------------------------------------
\* Properties of the A3RV wrappers (SpecWR)

WrUpReturned == wr = "up_ret"

\* C20: pd_power_up_a3rv forces the parent on only when the child's power-up
\* succeeded, and does not return success when the forced power-on of the
\* parent failed.
C20_ResultReflectsDependency ==
    WrUpReturned =>
        /\ Len(wr_log) = 2 => wr_log[1][3] = 0
        /\ wr_ret = 0 => wr_log[2][3] = 0

====
